---- MODULE Spec2Model ----
(***************************************************************************)
(* Model of pdf_to_webp.py: one invocation of main() -- path resolution,   *)
(* parameter validation, output directory creation, the page conversion    *)
(* loop of pdf_to_webp() with its per-page error boundary, the release of  *)
(* the document handle, and the mapping of the outcome to an exit code.    *)
(*                                                                         *)
(* The file system is the content of the resolved output directory.  The   *)
(* two libraries are modelled by what their calls do to the program:       *)
(* fitz.open / len(doc) / doc[i].get_pixmap / doc.close, and PIL's         *)
(* Image.open / Image.save.  Image.save(path, ...) opens path with mode    *)
(* "w+b" before it encodes, and on an exception removes the file only if   *)
(* this call created it; so a save that fails after the open leaves no     *)
(* file where none was, and a truncated file where one was.                *)
(***************************************************************************)
EXTENDS Integers, Sequences, FiniteSets, TLC

(* ------------------------------ bounds --------------------------------- *)
\* Largest page count of a document all of whose pages convert.
MaxPages == 10
\* Largest page count of a document whose pages may fail, in any combination.
MaxMixed == 3
\* Largest number of files (01.webp ..) an earlier run left in the directory.
MaxPrev == 2
\* Largest number of *.pdf files the search of the working directory finds.
MaxFound == 2
\* Largest number of answers read at the selection prompt.
MaxPrompts == 2

(* -------------------------- program constants -------------------------- *)
DEFAULT_ZOOM_BASE == 72
WEBP_METHOD == 6
DpiMin == 72
DpiMax == 1200
QualityMin == 0
QualityMax == 100
EXIT_OK == 0
EXIT_ERROR == 1
EXIT_INTERRUPT == 130
\* No exit code yet: the process is running.
Running == 0 - 1

\* Command-line values the model draws from: both sides of every bound.
DpiValues == {DpiMin - 1, DpiMin, DpiMax, DpiMax + 1}
QualityValues == {QualityMin - 1, QualityMin, QualityMax, QualityMax + 1}
OutputArgs == {"none", "out"}

\* What happens to a page: it converts, or the given step of the loop body raises.
\* "encode": img.save raises before it has opened the target;
\* "write":  img.save raises after it has opened the target for writing.
FailKinds == {"render", "decode", "encode", "write"}
Fates == {"ok"} \cup FailKinds

VARIABLES
    dpi, quality, lossless, outputArg,   \* args of main()
    pc,                                  \* position of the process
    exc,                                 \* exception in flight ("none": none)
    exitCode,                            \* sys.exit code, Running until exit
    found, prompts, choice,              \* the selection prompt: files listed, answers read, last answer
    pathKind,                            \* what pdf_path names: "file" | "dir"
    dirExists, fs,                       \* output directory and its files
    dir0, fs0,                           \* the same when the run started
    envMkdir, envOpen, doc,              \* what the environment answers, once asked
    docOpen, docOpens, docCloses,        \* the fitz document handle
    total_pages, page_num, converted_files,  \* locals of pdf_to_webp
    returned,                            \* converted_files of main()
    run, first                           \* run number; outcome of the first run

vars == <<dpi, quality, lossless, outputArg, pc, exc, exitCode, found, prompts,
          choice, pathKind, dirExists, fs, dir0, fs0, envMkdir, envOpen, doc,
          docOpen, docOpens, docCloses, total_pages, page_num, converted_files,
          returned, run, first>>

argVars == <<dpi, quality, lossless, outputArg>>
fsVars == <<dirExists, fs>>
startVars == <<dir0, fs0>>
envVars == <<envMkdir, envOpen, doc>>
docVars == <<docOpen, docOpens, docCloses>>
loopVars == <<total_pages, page_num, converted_files>>
resolveVars == <<found, prompts, choice, pathKind>>
twinVars == <<run, first>>

(* --------------------------- pure functions ---------------------------- *)
DigitChars == <<"0", "1", "2", "3", "4", "5", "6", "7", "8", "9">>

\* The decimal digits of n >= 0, most significant first.
RECURSIVE Digits(_)
Digits(n) == IF n < 10 THEN <<DigitChars[n + 1]>>
             ELSE Digits(n \div 10) \o <<DigitChars[(n % 10) + 1]>>

\* Left-pad with "0" to at least w characters.
RECURSIVE ZeroPad(_, _)
ZeroPad(s, w) == IF Len(s) >= w THEN s ELSE ZeroPad(<<"0">> \o s, w)

\* Mutant: the number is formatted without the 02 width.
Fmt02_NoPad(n) == Digits(n)

\* f"{n:02d}"
Fmt02(n) == ZeroPad(Digits(n), 2)

\* f"{page_num + 1:02d}.webp" for the zero-based page index i.
OutputFilename(i) == Fmt02(i + 1) \o <<".webp">>

\* output_dir as resolved by pdf_to_webp.
OutputDir == IF outputArg = "none" THEN <<"parent", "stem_webp">> ELSE <<outputArg>>

\* output_dir / output_filename
OutputPath(i) == <<OutputDir, OutputFilename(i)>>

\* Mutant: the upper bound of dpi is not checked.
validate_parameters_NoUpperDpi(d, q) ==
    IF d < DpiMin THEN "dpi"
    ELSE IF q < QualityMin \/ q > QualityMax THEN "quality"
    ELSE "ok"

\* validate_parameters: "ok", or which check raises ValueError.
validate_parameters(d, q) ==
    IF d < DpiMin \/ d > DpiMax THEN "dpi"
    ELSE IF q < QualityMin \/ q > QualityMax THEN "quality"
    ELSE "ok"

\* The keyword arguments img.save is called with.
SaveArgs(ll, q) ==
    IF ll THEN <<"lossless", 1>>
    ELSE <<"quality", q, "method", WEBP_METHOD>>

\* The render matrix: fitz.Matrix(zoom, zoom) with zoom = dpi / 72.0, kept as a ratio.
Matrix(d) == <<d, DEFAULT_ZOOM_BASE>>

\* File contents.
Old == <<"old">>
Truncated == <<"truncated">>
WebP(i, d, ll, q) == <<"webp", i, Matrix(d), SaveArgs(ll, q)>>

NoFiles == [n \in {} |-> Old]
Exists(f, name) == name \in DOMAIN f
WriteFile(f, name, content) ==
    [n \in DOMAIN f \cup {name} |-> IF n = name THEN content ELSE f[n]]

\* Mutant: the KeyboardInterrupt clause exits like the error clauses.
ExitCodeFor_InterruptAsError(e) == EXIT_ERROR

\* The exit code main() maps an exception to.
ExitCodeFor(e) ==
    IF e \in {"FileNotFoundError", "ValueError", "RuntimeError"} THEN EXIT_ERROR
    ELSE IF e = "KeyboardInterrupt" THEN EXIT_INTERRUPT
    ELSE EXIT_ERROR

\* The documents the model draws from: page count and each page's fate.
PageFates(n) ==
    IF n <= MaxMixed THEN [1..n -> Fates] ELSE {[i \in 1..n |-> "ok"]}
NoDoc == [pages |-> -1, fate |-> <<>>]

\* What a run comes to: its exit code, the returned list, the files of the directory.
NoOutcome == [exit |-> Running, returned |-> <<>>, fs |-> NoFiles]
Outcome == [exit |-> exitCode, returned |-> returned, fs |-> fs]

(* ------------------------------- Init ---------------------------------- *)
\* The directory as an earlier run of p pages left it (-1: it does not exist).
DirAfter(p) == [n \in {OutputFilename(k - 1) : k \in 1..p} |-> Old]

Init ==
    /\ dpi \in DpiValues
    /\ quality \in QualityValues
    /\ lossless \in BOOLEAN
    /\ outputArg \in OutputArgs
    /\ pc = "resolve"
    /\ exc = "none"
    /\ exitCode = Running
    /\ found = 0
    /\ prompts = 0
    /\ choice = "none"
    /\ pathKind = "unknown"
    /\ \E p \in -1..MaxPrev :
         /\ dirExists = (p >= 0)
         /\ fs = DirAfter(p)
    /\ dir0 = dirExists
    /\ fs0 = fs
    /\ envMkdir = "unset"
    /\ envOpen = "unset"
    /\ doc = NoDoc
    /\ docOpen = FALSE
    /\ docOpens = 0
    /\ docCloses = 0
    /\ total_pages = -1
    /\ page_num = 0
    /\ converted_files = <<>>
    /\ returned = <<>>
    /\ run = 1
    /\ first = NoOutcome

(* --------------------------- resolve_pdf_path -------------------------- *)
Raise(e, at) == /\ exc' = e
                /\ pc' = at

\* An explicit path: returned if it exists, FileNotFoundError otherwise.
ResolveExplicit ==
    /\ pc = "resolve"
    /\ \E exists \in BOOLEAN, kind \in {"file", "dir"} :
         IF ~exists
         THEN /\ Raise("FileNotFoundError", "main_except")
              /\ UNCHANGED pathKind
         ELSE /\ pathKind' = kind
              /\ pc' = "validate"
              /\ UNCHANGED exc
    /\ UNCHANGED <<argVars, exitCode, found, prompts, choice, fsVars, startVars, envVars,
                   docVars, loopVars, returned, twinVars>>

\* No path: search the working directory for *.pdf.
ResolveSearch ==
    /\ pc = "resolve"
    /\ \E n \in 0..MaxFound, kind \in {"file", "dir"} :
         IF n = 0
         THEN /\ Raise("FileNotFoundError", "main_except")
              /\ UNCHANGED <<found, pathKind>>
         ELSE IF n = 1
         THEN /\ pathKind' = kind
              /\ pc' = "validate"
              /\ UNCHANGED <<found, exc>>
         ELSE /\ found' = n
              /\ pc' = "prompt"
              /\ UNCHANGED <<exc, pathKind>>
    /\ UNCHANGED <<argVars, exitCode, prompts, choice, fsVars, startVars, envVars,
                   docVars, loopVars, returned, twinVars>>

(* ----------------------- interactive_file_selection -------------------- *)
PromptFrame == UNCHANGED <<argVars, exitCode, fsVars, startVars, envVars,
                           docVars, loopVars, returned, twinVars>>

\* The answer is 'q' (or 'Q'): KeyboardInterrupt is raised, printed and re-raised.
PromptQuit ==
    /\ pc = "prompt"
    /\ choice' = "q"
    /\ Raise("KeyboardInterrupt", "main_except")
    /\ UNCHANGED <<found, prompts, pathKind>>
    /\ PromptFrame

\* Ctrl-C inside input(): KeyboardInterrupt, printed and re-raised.
PromptInterrupt ==
    /\ pc = "prompt"
    /\ choice' = "ctrl_c"
    /\ Raise("KeyboardInterrupt", "main_except")
    /\ UNCHANGED <<found, prompts, pathKind>>
    /\ PromptFrame

\* End of input inside input(): EOFError, which no handler of the loop catches.
PromptEOF ==
    /\ pc = "prompt"
    /\ choice' = "eof"
    /\ Raise("EOFError", "main_except")
    /\ UNCHANGED <<found, prompts, pathKind>>
    /\ PromptFrame

\* The answer is no number: int() raises ValueError, the loop asks again.
PromptNotNumber ==
    /\ pc = "prompt"
    /\ prompts < MaxPrompts
    /\ prompts' = prompts + 1
    /\ choice' = "text"
    /\ UNCHANGED <<pc, exc, found, pathKind>>
    /\ PromptFrame

\* The answer is a number: selects a file if it is in 1..len(pdf_files), asks again if not.
PromptNumber ==
    /\ pc = "prompt"
    /\ prompts < MaxPrompts
    /\ \E choice_num \in 0..(found + 1), kind \in {"file", "dir"} :
         IF 1 <= choice_num /\ choice_num <= found
         THEN /\ pathKind' = kind
              /\ pc' = "validate"
              /\ found' = 0
              /\ prompts' = 0
              /\ choice' = "none"
         ELSE /\ prompts' = prompts + 1
              /\ choice' = "number"
              /\ UNCHANGED <<pc, found, pathKind>>
    /\ UNCHANGED exc
    /\ PromptFrame

(* ------------------------------ pdf_to_webp ---------------------------- *)
\* validate_parameters(dpi, quality), the first statement of pdf_to_webp.
Validate ==
    /\ pc = "validate"
    /\ IF validate_parameters(dpi, quality) = "ok"
       THEN /\ pc' = "check_path"
            /\ UNCHANGED exc
       ELSE Raise("ValueError", "main_except")
    /\ UNCHANGED <<argVars, exitCode, resolveVars, fsVars, startVars, envVars,
                   docVars, loopVars, returned, twinVars>>

\* pdf_path.is_file(): ValueError if the path names no regular file.
CheckPath ==
    /\ pc = "check_path"
    /\ IF pathKind = "file"
       THEN /\ pc' = "mkdir"
            /\ UNCHANGED exc
       ELSE Raise("ValueError", "main_except")
    /\ UNCHANGED <<argVars, exitCode, resolveVars, fsVars, startVars, envVars,
                   docVars, loopVars, returned, twinVars>>

\* output_dir.mkdir(parents=True, exist_ok=True): no error if it exists.
Mkdir ==
    /\ pc = "mkdir"
    /\ \E ok \in {"ok", "fail"} :
         /\ envMkdir \in {"unset", ok}
         /\ ok = "fail" => ~dirExists
         /\ envMkdir' = ok
         /\ IF ok = "ok"
            THEN /\ dirExists' = TRUE
                 /\ pc' = "open"
                 /\ UNCHANGED exc
            ELSE /\ Raise("OSError", "main_except")
                 /\ UNCHANGED dirExists
    /\ UNCHANGED <<argVars, exitCode, resolveVars, fs, startVars, envOpen, doc,
                   docVars, loopVars, returned, twinVars>>

\* fitz.open: any exception becomes RuntimeError, raised before the try/finally.
OpenFails ==
    /\ pc = "open"
    /\ envOpen \in {"unset", "fail"}
    /\ envOpen' = "fail"
    /\ Raise("RuntimeError", "main_except")
    /\ UNCHANGED <<argVars, exitCode, resolveVars, fsVars, startVars, envMkdir, doc,
                   docVars, loopVars, returned, twinVars>>

OpenDoc ==
    /\ pc = "open"
    /\ envOpen \in {"unset", "ok"}
    /\ envOpen' = "ok"
    /\ IF doc = NoDoc
       THEN \E n \in 0..MaxPages : \E f \in PageFates(n) :
              doc' = [pages |-> n, fate |-> f]
       ELSE UNCHANGED doc
    /\ docOpen' = TRUE
    /\ docOpens' = docOpens + 1
    /\ pc' = "count"
    /\ UNCHANGED <<argVars, exc, exitCode, resolveVars, fsVars, startVars, envMkdir,
                   docCloses, loopVars, returned, twinVars>>

\* Mutant: no zero-pages check, the loop is entered with an empty range.
CountPages_NoZeroCheck ==
    /\ pc = "count"
    /\ total_pages' = doc.pages
    /\ page_num' = 0
    /\ converted_files' = <<>>
    /\ pc' = "loop"
    /\ UNCHANGED <<argVars, exc, exitCode, resolveVars, fsVars, startVars, envVars,
                   docVars, returned, twinVars>>

\* total_pages = len(doc); ValueError if 0; else the loop's locals are set up.
CountPages ==
    /\ pc = "count"
    /\ total_pages' = doc.pages
    /\ page_num' = 0
    /\ converted_files' = <<>>
    /\ IF doc.pages = 0
       THEN Raise("ValueError", "finally")
       ELSE /\ pc' = "loop"
            /\ UNCHANGED exc
    /\ UNCHANGED <<argVars, exitCode, resolveVars, fsVars, startVars, envVars,
                   docVars, returned, twinVars>>

PageFrame == UNCHANGED <<argVars, pc, exc, exitCode, resolveVars, dirExists, startVars,
                         envVars, docVars, total_pages, returned, twinVars>>

InLoop(kind) ==
    /\ pc = "loop"
    /\ page_num < total_pages
    /\ doc.fate[page_num + 1] = kind

\* One iteration in which nothing raises: the file is written, its path appended.
PageOk ==
    /\ InLoop("ok")
    /\ fs' = WriteFile(fs, OutputFilename(page_num), WebP(page_num, dpi, lossless, quality))
    /\ converted_files' = Append(converted_files, OutputPath(page_num))
    /\ page_num' = page_num + 1
    /\ PageFrame

\* Mutant: no per-page error boundary, a render failure ends the run.
PageRenderFails_Aborts ==
    /\ InLoop("render")
    /\ Raise("RuntimeError", "finally")
    /\ UNCHANGED <<argVars, exitCode, resolveVars, fsVars, startVars, envVars,
                   docVars, loopVars, returned, twinVars>>

\* doc[page_num] or page.get_pixmap raises: logged, continue.
PageRenderFails ==
    /\ InLoop("render")
    /\ page_num' = page_num + 1
    /\ UNCHANGED <<fs, converted_files>>
    /\ PageFrame

\* pix.tobytes or Image.open raises: logged, continue.
PageDecodeFails ==
    /\ InLoop("decode")
    /\ page_num' = page_num + 1
    /\ UNCHANGED <<fs, converted_files>>
    /\ PageFrame

\* img.save raises before it has opened output_path: logged, continue.
PageEncodeFails ==
    /\ InLoop("encode")
    /\ page_num' = page_num + 1
    /\ UNCHANGED <<fs, converted_files>>
    /\ PageFrame

\* Mutant: the file the failed save created is left behind.
PageWriteFails_LeavesPartial ==
    /\ InLoop("write")
    /\ fs' = WriteFile(fs, OutputFilename(page_num), Truncated)
    /\ page_num' = page_num + 1
    /\ UNCHANGED converted_files
    /\ PageFrame

\* img.save raises after it has opened output_path with "w+b": a file that
\* existed is left truncated, a file the call created is removed; logged, continue.
PageWriteFails ==
    /\ InLoop("write")
    /\ fs' = IF Exists(fs, OutputFilename(page_num))
             THEN WriteFile(fs, OutputFilename(page_num), Truncated)
             ELSE fs
    /\ page_num' = page_num + 1
    /\ UNCHANGED converted_files
    /\ PageFrame

\* Mutant: an empty list is returned like any other.
AfterLoop_NoCheck ==
    /\ pc = "loop"
    /\ page_num = total_pages
    /\ pc' = "finally"
    /\ UNCHANGED <<argVars, exc, exitCode, resolveVars, fsVars, startVars, envVars,
                   docVars, loopVars, returned, twinVars>>

\* Mutant: no try/finally, doc.close() is reached on the normal path only.
AfterLoop_RaiseSkipsClose ==
    /\ pc = "loop"
    /\ page_num = total_pages
    /\ IF Len(converted_files) = 0
       THEN Raise("RuntimeError", "main_except")
       ELSE /\ pc' = "finally"
            /\ UNCHANGED exc
    /\ UNCHANGED <<argVars, exitCode, resolveVars, fsVars, startVars, envVars,
                   docVars, loopVars, returned, twinVars>>

\* The range is exhausted: RuntimeError if nothing converted, else return.
AfterLoop ==
    /\ pc = "loop"
    /\ page_num = total_pages
    /\ IF Len(converted_files) = 0
       THEN Raise("RuntimeError", "finally")
       ELSE /\ pc' = "finally"
            /\ UNCHANGED exc
    /\ UNCHANGED <<argVars, exitCode, resolveVars, fsVars, startVars, envVars,
                   docVars, loopVars, returned, twinVars>>

\* finally: doc.close(); then the return or the exception goes on to main().
Finally ==
    /\ pc = "finally"
    /\ docOpen' = FALSE
    /\ docCloses' = docCloses + 1
    /\ IF exc = "none"
       THEN /\ returned' = converted_files
            /\ pc' = "main_success"
       ELSE /\ pc' = "main_except"
            /\ UNCHANGED returned
    /\ UNCHANGED <<argVars, exc, exitCode, resolveVars, fsVars, startVars, envVars,
                   docOpens, loopVars, twinVars>>

(* --------------------------------- main -------------------------------- *)
\* The two prints after the call; converted_files[0] raises IndexError on an empty list.
MainSuccess ==
    /\ pc = "main_success"
    /\ IF Len(returned) = 0
       THEN /\ Raise("IndexError", "main_except")
            /\ UNCHANGED exitCode
       ELSE /\ exitCode' = EXIT_OK
            /\ pc' = "exit"
            /\ UNCHANGED exc
    /\ UNCHANGED <<argVars, resolveVars, fsVars, startVars, envVars,
                   docVars, loopVars, returned, twinVars>>

\* The except clauses of main(): sys.exit(1) or sys.exit(130).
MainExcept ==
    /\ pc = "main_except"
    /\ exitCode' = ExitCodeFor(exc)
    /\ pc' = "exit"
    /\ UNCHANGED <<argVars, exc, resolveVars, fsVars, startVars, envVars,
                   docVars, loopVars, returned, twinVars>>

\* The same call once more, from the directory as it was and in the same
\* environment, with another quality: the second of two runs that are compared.
RunAgain ==
    /\ pc = "exit"
    /\ run = 1
    /\ pathKind # "unknown"
    /\ run' = 2
    /\ first' = Outcome
    /\ quality' \in QualityValues \ {quality}
    /\ pc' = "validate"
    /\ exc' = "none"
    /\ exitCode' = Running
    /\ dirExists' = dir0
    /\ fs' = fs0
    /\ docOpens' = 0
    /\ docCloses' = 0
    /\ total_pages' = -1
    /\ page_num' = 0
    /\ converted_files' = <<>>
    /\ returned' = <<>>
    /\ UNCHANGED <<dpi, lossless, outputArg, resolveVars, startVars, envVars, docOpen>>

Next ==
    \/ ResolveExplicit \/ ResolveSearch
    \/ PromptQuit \/ PromptInterrupt \/ PromptEOF \/ PromptNotNumber \/ PromptNumber
    \/ Validate \/ CheckPath \/ Mkdir \/ OpenFails \/ OpenDoc \/ CountPages
    \/ PageOk \/ PageRenderFails \/ PageDecodeFails \/ PageEncodeFails \/ PageWriteFails
    \/ AfterLoop \/ Finally \/ MainSuccess \/ MainExcept

Spec == Init /\ [][Next]_vars

\* Two runs that differ in quality alone.
NextTwin == Next \/ RunAgain
SpecTwin == Init /\ [][NextTwin]_vars

(* ======================================================================= *)
(*                              Properties                                 *)
(* ======================================================================= *)
Range(seq) == {seq[j] : j \in DOMAIN seq}

\* int(): the number a string of decimal digits denotes.
DigitValue(c) == CHOOSE d \in 0..9 : DigitChars[d + 1] = c
RECURSIVE DecimalValue(_)
DecimalValue(s) ==
    IF Len(s) = 0 THEN 0
    ELSE DecimalValue(SubSeq(s, 1, Len(s) - 1)) * 10 + DigitValue(s[Len(s)])

\* Files of the directory that this run wrote to completion.
WrittenNames == {n \in DOMAIN fs : fs[n][1] = "webp"}
\* Zero-based indices of the pages the loop has been through, by outcome.
AttemptedOk ==
    IF total_pages < 0 THEN {}
    ELSE {i \in 0..(page_num - 1) : doc.fate[i + 1] = "ok"}
AttemptedFailed ==
    IF total_pages < 0 THEN {}
    ELSE {i \in 0..(page_num - 1) : doc.fate[i + 1] # "ok"}
AllPagesConvert ==
    total_pages >= 1 /\ \A i \in 1..total_pages : doc.fate[i] = "ok"
AllPagesFail ==
    total_pages >= 1 /\ \A i \in 1..total_pages : doc.fate[i] # "ok"
OnlyPageFails(k) ==
    /\ total_pages >= 2
    /\ k \in 1..total_pages
    /\ doc.fate[k] # "ok"
    /\ \A i \in (1..total_pages) \ {k} : doc.fate[i] = "ok"
InvalidArgs == dpi < 72 \/ dpi > 1200 \/ quality < 0 \/ quality > 100
\* pdf_to_webp has been called.
Called == pathKind # "unknown"

(* ------------------------------- C1 ------------------------------------ *)
\* C1: with dpi outside [72,1200] or quality outside [0,100] the run never gets
\* past validation: in every state the output directory is as it was at the start
\* (not created), no file in it has changed, the document has not been opened, and
\* once pdf_to_webp was called the run ends with ValueError and exit code 1.
C1_InvalidRejectedBeforeWork ==
    InvalidArgs =>
        /\ dirExists = dir0
        /\ fs = fs0
        /\ docOpens = 0
        /\ ~docOpen
        /\ pc \notin {"check_path", "mkdir", "open", "count", "loop", "finally",
                      "main_success"}
        /\ exitCode # EXIT_OK
        /\ (pc = "exit" /\ Called) => (exc = "ValueError" /\ exitCode = EXIT_ERROR)

\* An invalid run that reached pdf_to_webp and was rejected, the directory still absent.
C1_Witness ==
    /\ InvalidArgs
    /\ pc = "exit"
    /\ Called
    /\ pathKind = "file"
    /\ exc = "ValueError"
    /\ ~dir0
    /\ ~dirExists

(* ------------------------------- C2 ------------------------------------ *)
\* C2: when all N >= 1 pages convert, the run succeeds, exactly N files are written
\* and N paths returned; the i-th returned path (page index i-1) lies in the output
\* directory and is named by the decimal number i, at least two digits wide, padded
\* with a zero when i < 10 and not padded otherwise, followed by ".webp"; so the
\* list is strictly ascending and free of duplicates.
C2_AllPagesNamedInOrder ==
    (pc = "exit" /\ AllPagesConvert) =>
        /\ exitCode = EXIT_OK
        /\ Len(returned) = total_pages
        /\ Cardinality(WrittenNames) = total_pages
        /\ Cardinality(Range(returned)) = total_pages
        /\ \A i \in 1..total_pages :
             LET name == returned[i][2]
                 stem == SubSeq(name, 1, Len(name) - 1)
             IN  /\ returned[i][1] = OutputDir
                 /\ name[Len(name)] = ".webp"
                 /\ Len(stem) >= 2
                 /\ \A j \in 1..Len(stem) : stem[j] \in Range(DigitChars)
                 /\ DecimalValue(stem) = i
                 /\ (i < 10) => (Len(stem) = 2 /\ stem[1] = "0")
                 /\ (i >= 10) => stem[1] # "0"
                 /\ name \in WrittenNames
                 /\ fs[name][2] = i - 1

\* A ten-page document converted in full: 01.webp .. 10.webp.
C2_Witness ==
    /\ pc = "exit"
    /\ AllPagesConvert
    /\ total_pages >= 10
    /\ Len(returned) = total_pages

(* ------------------------------- C3 ------------------------------------ *)
\* C3: when exactly one page k of N >= 2 fails (at any step) the loop goes on to the
\* last page, the run writes the N-1 files of the other pages and none numbered k
\* (no file k is in the directory unless one was there before the run), returns
\* N-1 paths without k's, and exits with code 0.
C3_OneFailedPageSkipped ==
    \A k \in 1..MaxMixed :
        (pc = "exit" /\ OnlyPageFails(k)) =>
            /\ exitCode = EXIT_OK
            /\ exc = "none"
            /\ page_num = total_pages
            /\ WrittenNames = {OutputFilename(i - 1) : i \in (1..total_pages) \ {k}}
            /\ Cardinality(WrittenNames) = total_pages - 1
            /\ Len(returned) = total_pages - 1
            /\ OutputPath(k - 1) \notin Range(returned)
            /\ ~Exists(fs0, OutputFilename(k - 1)) => ~Exists(fs, OutputFilename(k - 1))

\* Page 2 of 3 fails to render, pages 1 and 3 are written, the run succeeds.
C3_Witness ==
    /\ pc = "exit"
    /\ total_pages = 3
    /\ OnlyPageFails(2)
    /\ doc.fate[2] = "render"
    /\ Len(returned) = 2
    /\ exitCode = EXIT_OK

(* ------------------------------- C4 ------------------------------------ *)
\* C4 as stated: after a run that went through the pages, the files present in the
\* output directory are exactly the files of the pages that converted, which are
\* exactly the returned ones, and no file is present under a failed page's number.
C4_DirectoryIsBijection ==
    (pc = "exit" /\ total_pages >= 1) =>
        /\ DOMAIN fs = {OutputFilename(i) : i \in AttemptedOk}
        /\ DOMAIN fs = {path[2] : path \in Range(converted_files)}
        /\ \A i \in AttemptedFailed : ~Exists(fs, OutputFilename(i))

\* C4 amended: in every state the files this run has written are exactly the files
\* of the pages that converted, one each, and exactly the collected paths, which
\* are what a successful run returns; a failed page is not in the list, no file is
\* written for it, and a file is present under its number only if one was there
\* when the run started.
C4_WrittenIsBijection ==
    /\ WrittenNames = {OutputFilename(i) : i \in AttemptedOk}
    /\ Range(converted_files) = {OutputPath(i) : i \in AttemptedOk}
    /\ Len(converted_files) = Cardinality(AttemptedOk)
    /\ Cardinality(WrittenNames) = Cardinality(AttemptedOk)
    /\ \A i \in AttemptedOk : fs[OutputFilename(i)][2] = i
    /\ \A i \in AttemptedFailed :
         /\ OutputPath(i) \notin Range(converted_files)
         /\ OutputFilename(i) \notin WrittenNames
         /\ Exists(fs, OutputFilename(i)) <=> Exists(fs0, OutputFilename(i))
    /\ returned \in {<<>>, converted_files}
    /\ (pc = "exit" /\ exitCode = EXIT_OK) => returned = converted_files
    /\ \A path \in Range(returned) : path[1] = OutputDir /\ path[2] \in WrittenNames

\* A successful run in which a failed page's number still names the file of an
\* earlier run, and another in which nothing was there and nothing is left.
C4_Witness ==
    /\ pc = "exit"
    /\ exitCode = EXIT_OK
    /\ \E i \in AttemptedFailed :
         /\ Exists(fs0, OutputFilename(i))
         /\ Exists(fs, OutputFilename(i))
    /\ \E i \in AttemptedFailed :
         /\ doc.fate[i + 1] = "write"
         /\ ~Exists(fs, OutputFilename(i))

(* ------------------------------- C5 ------------------------------------ *)
\* C5: a document of 0 pages: the loop is never entered, no page is processed, no
\* file of the directory is created or changed, and the run ends with the
\* zero-pages ValueError and exit code 1.
C5_ZeroPagesFails ==
    total_pages = 0 =>
        /\ pc \notin {"loop", "main_success"}
        /\ page_num = 0
        /\ converted_files = <<>>
        /\ returned = <<>>
        /\ fs = fs0
        /\ pc \in {"main_except", "exit"} => exc = "ValueError"
        /\ pc = "exit" => exitCode = EXIT_ERROR

\* The directory did not exist, was created, and is empty after the failed run.
C5_Witness ==
    /\ total_pages = 0
    /\ pc = "exit"
    /\ exitCode = EXIT_ERROR
    /\ ~dir0
    /\ dirExists
    /\ DOMAIN fs = {}

(* ------------------------------- C6 ------------------------------------ *)
\* C6: when every page of a document with pages fails, all pages are attempted and
\* pdf_to_webp then raises RuntimeError (exit code 1) rather than return; and
\* whenever pdf_to_webp returns, the returned list is not empty.
C6_AllFailedIsFailure ==
    /\ pc = "main_success" => Len(returned) >= 1
    /\ AllPagesFail =>
         /\ pc # "main_success"
         /\ returned = <<>>
         /\ pc \in {"finally", "main_except", "exit"} =>
              (exc = "RuntimeError" /\ page_num = total_pages)
         /\ pc = "exit" => exitCode = EXIT_ERROR

\* Both pages of a two-page document failed and the run ended with code 1.
C6_Witness ==
    /\ AllPagesFail
    /\ total_pages >= 2
    /\ pc = "exit"
    /\ exitCode = EXIT_ERROR
    /\ page_num = total_pages

(* ------------------------------- C7 ------------------------------------ *)
\* C7: after a run into a directory that held files, every file that was there is
\* still there; it holds the new output if its number is that of a page this run
\* converted, and is unchanged otherwise.
C7_OtherFilesUnchanged ==
    pc = "exit" =>
        \A name \in DOMAIN fs0 :
            /\ Exists(fs, name)
            /\ IF \E path \in Range(converted_files) : path[2] = name
               THEN fs[name][1] = "webp"
               ELSE fs[name] = fs0[name]

(* ------------------------------- C8 ------------------------------------ *)
\* C8: at exit the code is 0, 1 or 130; it is 0 exactly when pdf_to_webp returned
\* a non-empty list; it is 1 after a not-found error, a validation error, a path
\* that is no file, an open failure, zero pages or zero converted pages; it is
\* 130 when the prompt was cancelled with 'q' or by interrupt.
C8_ExitCodes ==
    pc = "exit" =>
        /\ exitCode \in {0, 1, 130}
        /\ exitCode = 0 <=> (exc = "none" /\ Len(returned) >= 1 /\ Called)
        /\ exitCode = 0 => (~InvalidArgs /\ envOpen = "ok" /\ ~AllPagesFail
                            /\ total_pages >= 1 /\ pathKind = "file")
        /\ exc \in {"FileNotFoundError", "ValueError", "RuntimeError"} => exitCode = 1
        /\ (Called /\ InvalidArgs) => exitCode = 1
        /\ (envOpen = "fail" \/ total_pages = 0 \/ AllPagesFail) => exitCode = 1
        /\ choice \in {"q", "ctrl_c"} <=> exitCode = 130
        /\ exitCode = 130 => exc = "KeyboardInterrupt"

\* The prompt was left with 'q' and the process exited with 130.
C8_Witness ==
    /\ pc = "exit"
    /\ choice = "q"
    /\ exitCode = 130

(* ------------------------------- C9 ------------------------------------ *)
\* C9: the handle is opened at most once and closed at most once; once pdf_to_webp
\* has been left, by return or by exception, an opened handle has been closed
\* exactly once; it is closed only when the document has no pages or the last page
\* has been attempted; and while pages are counted or processed it is open.
C9_HandleClosedOnce ==
    /\ docOpens \in {0, 1}
    /\ docCloses <= docOpens
    /\ docOpen <=> (docOpens = 1 /\ docCloses = 0)
    /\ pc \in {"main_success", "main_except", "exit"} => docCloses = docOpens
    /\ docCloses = 1 => (total_pages = 0 \/ page_num = total_pages)
    /\ pc \in {"count", "loop", "finally"} => docOpen

\* All pages failed, the exception went through the finally clause, the handle is closed.
C9_Witness ==
    /\ pc = "exit"
    /\ AllPagesFail
    /\ exc = "RuntimeError"
    /\ docOpens = 1
    /\ docCloses = 1
    /\ ~docOpen

(* ------------------------------- C10 ----------------------------------- *)
\* C10: of two runs that differ in quality alone, with lossless set, the second
\* ends as the first did: same exit code, same returned list, same directory.
C10_LosslessIgnoresQuality ==
    (run = 2 /\ pc = "exit" /\ lossless) => Outcome = first

\* What does hold: the same, when both quality values pass validation.
LosslessIgnoresValidQuality ==
    (run = 2 /\ pc = "exit" /\ lossless /\ first.exit = EXIT_OK /\ exitCode = EXIT_OK)
        => Outcome = first

====
